---- MODULE Spec2Model ----
(***************************************************************************)
(* Model of the vminfod event pipeline of cfwlogd.                         *)
(*                                                                         *)
(*   transport     vminfod/src/client.rs  Client::run: reads the response  *)
(*                 body line by line, decodes each line and sends the      *)
(*                 event on a crossbeam channel.                           *)
(*   synchronizer  cfwlogd/src/zones.rs   the "vminfod_event_processor"    *)
(*                 thread of start_vminfod: folds the events into Vmobjs.  *)
(*   caller        cfwlogd/src/zones.rs   the thread that called           *)
(*                 start_vminfod and waits on (Mutex<bool>, Condvar).      *)
(*   reader        any thread that looks a zonedid up in Vmobjs under the  *)
(*                 read half of the ShardedLock.                           *)
(***************************************************************************)
EXTENDS Naturals, Sequences, FiniteSets

(***************************************************************************)
(* Bounds of the model.                                                    *)
(***************************************************************************)
\* lines the transport reads from the response body
MaxLines == 3
\* lines the transport reads in the behaviours checked for progress
MaxLinesFair == 2
\* lines the transport reads when a reader thread runs beside the pipeline
MaxLinesRW == 2
\* segments of one change path, and paths of one changes payload
MaxPathLen == 2
MaxChanges == 2

(***************************************************************************)
(* Data.                                                                   *)
(***************************************************************************)
\* Zonedid = u32; two ids are enough to tell an entry from its neighbour
Zonedid == {1, 2}
Aliases == {"a", "b"}
\* vminfod::Zone, reduced to its key and the payload the cache tracks
Zone == [zonedid : Zonedid, alias : Aliases]

\* Option<String>: a segment of Changes.path
None == [some |-> FALSE, v |-> ""]
Some(s) == [some |-> TRUE, v |-> s]
Segments == {None, Some("alias"), Some("nics")}

\* sequences over S of length at most n
SeqUpTo(S, n) == UNION {[1..k -> S] : k \in 0..n}

\* vminfod::Changes, reduced to its path
Changes == [path : SeqUpTo(Segments, MaxPathLen)]
ChangesLists == SeqUpTo(Changes, MaxChanges)

\* the changes payloads the transport model draws for Modify lines
ModifySamples ==
  { << [path |-> <<Some("alias")>>] >>,
    << [path |-> <<Some("nics"), Some("alias")>>], [path |-> <<None>>] >> }

Z(id, a) == [zonedid |-> id, alias |-> a]

\* the vms payload of a Ready event is a JSON document inside a string: it
\* either parses to a list of zones or does not
VmsOf(zones) == [ok |-> TRUE, zones |-> zones]
BadVms == [ok |-> FALSE, zones |-> <<>>]
\* the payloads the transport model draws for Ready lines: no zone, two
\* zones, one zone listed twice, and a payload that does not parse
VmsSamples ==
  { VmsOf(<<>>), VmsOf(<<Z(1, "a"), Z(2, "a")>>),
    VmsOf(<<Z(1, "b"), Z(1, "a")>>), BadVms }

ReadyEvent(raw) == [type |-> "Ready", vms |-> raw]
CreateEvent(z) == [type |-> "Create", vm |-> z]
ModifyEvent(z, ch) == [type |-> "Modify", vm |-> z, changes |-> ch]
DeleteEvent(z) == [type |-> "Delete", vm |-> z]
NoEvent == [type |-> "None"]
Malformed == [type |-> "Malformed"]

\* serde_json::from_str::<VminfodEvent>(&line): a line either decodes or not
Decodes(line) == line.type # "Malformed"

\* serde_json::from_str::<Vec<Zone>>(&raw_vms)
ParsesVms(raw) == raw.ok
ParseVms(raw) == raw.zones

\* the lines the event service may put on the wire
Lines ==
  {Malformed}
    \cup {ReadyEvent(raw) : raw \in VmsSamples}
    \cup {CreateEvent(z) : z \in Zone}
    \cup {ModifyEvent(z, ch) : z \in {Z(1, "b"), Z(2, "a")}, ch \in ModifySamples}
    \cup {DeleteEvent(z) : z \in {Z(1, "a")}}

(***************************************************************************)
(* State.                                                                  *)
(***************************************************************************)
VARIABLES
  wire,      \* lines the transport has read so far, in wire order
  tpc,       \* transport: "connect", "stream", "done", "panicked"
  chan,      \* crossbeam channel: events sent and not yet received
  spc,       \* synchronizer thread: position in the event loop
  cur,       \* synchronizer: the event bound by the match arm
  vms,       \* synchronizer: snapshot records still to insert
  panic,     \* synchronizer: the panic that ended the thread, "" while alive
  cache,     \* Vmobjs: HashMap<Zonedid, Zone>
  wlock,     \* Vmobjs ShardedLock: write guard held by the synchronizer
  readers,   \* Vmobjs ShardedLock: number of read guards held
  mtx,       \* waiter mutex: "free", "sync", "caller"
  poisoned,  \* waiter mutex: a thread panicked while holding it
  ready,     \* waiter boolean
  signals,   \* number of cvar.notify_one() calls made
  cpc,       \* caller of start_vminfod: position
  applied,   \* events whose match arm has completed, in order
  rd         \* reader: [pc, id, val]

tvars == <<wire, tpc>>
svars == <<spc, cur, vms, panic>>
lvars == <<wlock, readers>>
wvars == <<mtx, poisoned, ready, signals>>
vars == <<wire, tpc, chan, spc, cur, vms, panic, cache, wlock, readers, mtx,
          poisoned, ready, signals, cpc, applied, rd>>

NoZone == [zonedid |-> 0, alias |-> ""]
Idle == [pc |-> "idle", id |-> 0, val |-> NoZone]

Init ==
  /\ wire = <<>>
  /\ tpc = "connect"
  /\ chan = <<>>
  /\ spc = "recv"
  /\ cur = NoEvent
  /\ vms = <<>>
  /\ panic = ""
  /\ cache = <<>>
  /\ wlock = FALSE
  /\ readers = 0
  /\ mtx = "free"
  /\ poisoned = FALSE
  /\ ready = FALSE
  /\ signals = 0
  /\ cpc = "lock"
  /\ applied = <<>>
  /\ rd = Idle

(***************************************************************************)
(* Vmobjs.                                                                 *)
(***************************************************************************)
\* variant of MapInsert: an occupied entry is kept (entry().or_insert())
MapInsert_KeepOld(m, z) ==
  [k \in DOMAIN m \cup {z.zonedid} |-> IF k \in DOMAIN m THEN m[k] ELSE z]

\* HashMap::insert(zone.zonedid, zone)
MapInsert(m, z) ==
  [k \in DOMAIN m \cup {z.zonedid} |-> IF k = z.zonedid THEN z ELSE m[k]]

\* HashMap::get(&id)
MapGet(m, id) == IF id \in DOMAIN m THEN m[id] ELSE NoZone

\* variant of alias_changed: "alias" is looked for at every segment of a path
RECURSIVE alias_changed_AnySegment(_)
alias_changed_AnySegment(changes) ==
  IF changes = <<>> THEN FALSE
  ELSE LET path == Head(changes).path
       IN IF \E k \in 1..Len(path) : path[k].some /\ path[k].v = "alias"
            THEN TRUE
            ELSE alias_changed_AnySegment(Tail(changes))

\* alias_changed: the loop over changes with its early return
RECURSIVE alias_changed(_)
alias_changed(changes) ==
  IF changes = <<>> THEN FALSE
  ELSE LET path == Head(changes).path
           first == IF Len(path) = 0 THEN None ELSE path[1]
       IN IF first.some /\ first.v = "alias" THEN TRUE
          ELSE alias_changed(Tail(changes))

(***************************************************************************)
(* Transport: Client::run.                                                 *)
(***************************************************************************)
\* client.request(req) fails: map_err logs, the future ends
TConnectFail ==
  /\ tpc = "connect"
  /\ tpc' = "done"
  /\ UNCHANGED <<wire, chan, svars, cache, lvars, wvars, cpc, applied, rd>>

\* client.request(req) succeeds: and_then starts the line stream
TConnect ==
  /\ tpc = "connect"
  /\ tpc' = "stream"
  /\ UNCHANGED <<wire, chan, svars, cache, lvars, wvars, cpc, applied, rd>>

\* tx.send(event): Err once the receiver was dropped by the panicking thread
SendFails == spc = "panicked"

\* variant of TLine: a line that does not decode is skipped
TLine_SkipMalformed(line) ==
  /\ tpc = "stream"
  /\ Len(wire) < MaxLines
  /\ wire' = Append(wire, line)
  /\ IF ~Decodes(line)
       THEN tpc' = tpc /\ chan' = chan
       ELSE IF SendFails
         THEN tpc' = "panicked" /\ chan' = chan
         ELSE tpc' = tpc /\ chan' = Append(chan, line)
  /\ UNCHANGED <<svars, cache, lvars, wvars, cpc, applied, rd>>

\* for_each closure on one line: decode with ?, then tx.send(event).unwrap()
TLine(line) ==
  /\ tpc = "stream"
  /\ Len(wire) < MaxLines
  /\ wire' = Append(wire, line)
  /\ IF ~Decodes(line)
       THEN tpc' = "done" /\ chan' = chan
       ELSE IF SendFails
         THEN tpc' = "panicked" /\ chan' = chan
         ELSE tpc' = tpc /\ chan' = Append(chan, line)
  /\ UNCHANGED <<svars, cache, lvars, wvars, cpc, applied, rd>>

\* the body ends or a read fails (Error::Hyper): map_err logs, the future ends
TEnd ==
  /\ tpc = "stream"
  /\ tpc' = "done"
  /\ UNCHANGED <<wire, chan, svars, cache, lvars, wvars, cpc, applied, rd>>

\* every Sender is gone once Client::run has returned or unwound
ChanClosed == tpc \in {"done", "panicked"}

\* the panic messages of the synchronizer thread
AssertFailed == "assertion failed: (left == right)"
ParseFailed == "failed to parse vms payload from vminfod"
StreamClosed == "vminfod event stream closed"

(***************************************************************************)
(* Synchronizer: the thread spawned by start_vminfod.                      *)
(***************************************************************************)
\* the match on the event type; the Create arm is the call of insert_vmobj
Arm(event) ==
  CASE event.type = "Ready" -> "ready_lock"
    [] event.type = "Create" -> "ins_wlock"
    [] event.type = "Modify" -> "modify"
    [] event.type = "Delete" -> "delete"

\* variant of SyncRecv: the newest event of the channel is taken first
SyncRecv_Newest ==
  /\ spc = "recv"
  /\ chan # <<>>
  /\ cur' = chan[Len(chan)]
  /\ chan' = SubSeq(chan, 1, Len(chan) - 1)
  /\ spc' = Arm(chan[Len(chan)])
  /\ UNCHANGED <<tvars, vms, panic, cache, lvars, wvars, cpc, applied, rd>>

\* r.iter().next() yields the oldest event of the channel
SyncRecv ==
  /\ spc = "recv"
  /\ chan # <<>>
  /\ cur' = Head(chan)
  /\ chan' = Tail(chan)
  /\ spc' = Arm(Head(chan))
  /\ UNCHANGED <<tvars, vms, panic, cache, lvars, wvars, cpc, applied, rd>>

\* variant of SyncClosed: the stream is opened again instead of the panic
SyncClosed_Reconnect ==
  /\ spc = "recv"
  /\ chan = <<>>
  /\ ChanClosed
  /\ tpc' = "connect"
  /\ UNCHANGED <<wire, chan, svars, cache, lvars, wvars, cpc, applied, rd>>

\* variant of SyncClosed: disconnection is noticed before the channel is
\* drained
SyncClosed_Early ==
  /\ spc = "recv"
  /\ ChanClosed
  /\ spc' = "panicked"
  /\ panic' = StreamClosed
  /\ UNCHANGED <<tvars, chan, cur, vms, cache, lvars, wvars, cpc, applied, rd>>

\* r.iter() ends when the channel is empty and disconnected: the panic after
\* the loop
SyncClosed ==
  /\ spc = "recv"
  /\ chan = <<>>
  /\ ChanClosed
  /\ spc' = "panicked"
  /\ panic' = StreamClosed
  /\ UNCHANGED <<tvars, chan, cur, vms, cache, lvars, wvars, cpc, applied, rd>>

\* Ready arm: lock.lock().unwrap()
SyncReadyLock ==
  /\ spc = "ready_lock"
  /\ mtx = "free"
  /\ mtx' = "sync"
  /\ spc' = "ready_check"
  /\ UNCHANGED <<tvars, chan, cur, vms, panic, cache, lvars, poisoned, ready,
                 signals, cpc, applied, rd>>

\* variant of SyncReadyCheck: the assertion on the flag is missing
SyncReadyCheck_NoAssert ==
  /\ spc = "ready_check"
  /\ IF ~ParsesVms(cur.vms)
       THEN /\ spc' = "panicked"
            /\ panic' = ParseFailed
            /\ mtx' = "free" /\ poisoned' = TRUE
            /\ vms' = vms
       ELSE /\ spc' = "ready_wlock"
            /\ vms' = ParseVms(cur.vms)
            /\ UNCHANGED <<panic, mtx, poisoned>>
  /\ UNCHANGED <<tvars, chan, cur, cache, lvars, ready, signals, cpc,
                 applied, rd>>

\* variant of SyncReadyCheck: a payload that does not parse counts as empty
\* (unwrap_or_default)
SyncReadyCheck_ParseDefault ==
  /\ spc = "ready_check"
  /\ IF ready
       THEN /\ spc' = "panicked"
            /\ panic' = AssertFailed
            /\ mtx' = "free" /\ poisoned' = TRUE
            /\ vms' = vms
       ELSE /\ spc' = "ready_wlock"
            /\ vms' = ParseVms(cur.vms)
            /\ UNCHANGED <<panic, mtx, poisoned>>
  /\ UNCHANGED <<tvars, chan, cur, cache, lvars, ready, signals, cpc,
                 applied, rd>>

\* Ready arm: assert_eq!(*ready, false), then the parse of the vms payload.
\* A panic here unwinds with the MutexGuard alive: the mutex is released
\* poisoned.
SyncReadyCheck ==
  /\ spc = "ready_check"
  /\ IF ready
       THEN /\ spc' = "panicked"
            /\ panic' = AssertFailed
            /\ mtx' = "free" /\ poisoned' = TRUE
            /\ vms' = vms
       ELSE IF ~ParsesVms(cur.vms)
         THEN /\ spc' = "panicked"
              /\ panic' = ParseFailed
              /\ mtx' = "free" /\ poisoned' = TRUE
              /\ vms' = vms
         ELSE /\ spc' = "ready_wlock"
              /\ vms' = ParseVms(cur.vms)
              /\ UNCHANGED <<panic, mtx, poisoned>>
  /\ UNCHANGED <<tvars, chan, cur, cache, lvars, ready, signals, cpc,
                 applied, rd>>

\* variant of SyncReadyWrite: the write guard is taken beside read guards
SyncReadyWrite_NoWait ==
  /\ spc = "ready_wlock"
  /\ wlock' = TRUE
  /\ spc' = "ready_insert"
  /\ UNCHANGED <<tvars, chan, cur, vms, panic, cache, readers, wvars, cpc,
                 applied, rd>>

\* Ready arm: vmobjs.write().unwrap() waits for the read guards to go
SyncReadyWrite ==
  /\ spc = "ready_wlock"
  /\ readers = 0
  /\ wlock' = TRUE
  /\ spc' = "ready_insert"
  /\ UNCHANGED <<tvars, chan, cur, vms, panic, cache, readers, wvars, cpc,
                 applied, rd>>

\* variant of SyncReadyInsert: a zone already cached is not overwritten
SyncReadyInsert_KeepOld ==
  /\ spc = "ready_insert"
  /\ vms # <<>>
  /\ cache' = IF Head(vms).zonedid \in DOMAIN cache THEN cache
              ELSE MapInsert(cache, Head(vms))
  /\ vms' = Tail(vms)
  /\ UNCHANGED <<tvars, chan, spc, cur, panic, lvars, wvars, cpc, applied, rd>>

\* Ready arm: one iteration of for vm in vms { w.insert(vm.zonedid, vm) }
SyncReadyInsert ==
  /\ spc = "ready_insert"
  /\ vms # <<>>
  /\ cache' = MapInsert(cache, Head(vms))
  /\ vms' = Tail(vms)
  /\ UNCHANGED <<tvars, chan, spc, cur, panic, lvars, wvars, cpc, applied, rd>>

\* Ready arm: the loop is over, *ready = true
SyncReadySet ==
  /\ spc = "ready_insert"
  /\ vms = <<>>
  /\ ready' = TRUE
  /\ spc' = "ready_notify"
  /\ UNCHANGED <<tvars, chan, cur, vms, panic, cache, lvars, mtx, poisoned,
                 signals, cpc, applied, rd>>

\* variant of SyncReadyNotify: the notification wakes nobody
SyncReadyNotify_Lost ==
  /\ spc = "ready_notify"
  /\ signals' = signals + 1
  /\ spc' = "ready_drop"
  /\ UNCHANGED <<tvars, chan, cur, vms, panic, cache, lvars, mtx, poisoned,
                 ready, cpc, applied, rd>>

\* Ready arm: cvar.notify_one() wakes the caller when it is blocked in wait
SyncReadyNotify ==
  /\ spc = "ready_notify"
  /\ signals' = signals + 1
  /\ cpc' = IF cpc = "waiting" THEN "woken" ELSE cpc
  /\ spc' = "ready_drop"
  /\ UNCHANGED <<tvars, chan, cur, vms, panic, cache, lvars, mtx, poisoned,
                 ready, applied, rd>>

\* Ready arm: end of the block drops w, then ready
SyncReadyDrop ==
  /\ spc = "ready_drop"
  /\ wlock' = FALSE
  /\ mtx' = "free"
  /\ applied' = Append(applied, cur)
  /\ cur' = NoEvent
  /\ spc' = "recv"
  /\ UNCHANGED <<tvars, chan, vms, panic, cache, readers, poisoned, ready,
                 signals, cpc, rd>>

\* variant of SyncModify: the record is never stored
SyncModify_Skip ==
  /\ spc = "modify"
  /\ spc' = "recv"
  /\ applied' = Append(applied, cur)
  /\ cur' = NoEvent
  /\ UNCHANGED <<tvars, chan, vms, panic, cache, lvars, wvars, cpc, rd>>

\* variant of SyncModify: a Modify is ignored until the Ready was applied
SyncModify_LiveOnly ==
  /\ spc = "modify"
  /\ IF ready /\ alias_changed(cur.changes)
       THEN /\ spc' = "ins_wlock"
            /\ UNCHANGED <<cur, applied>>
       ELSE /\ spc' = "recv"
            /\ applied' = Append(applied, cur)
            /\ cur' = NoEvent
  /\ UNCHANGED <<tvars, chan, vms, panic, cache, lvars, wvars, cpc, rd>>

\* Modify arm: if alias_changed(&event.changes) { insert_vmobj(event.vm, ..) }
SyncModify ==
  /\ spc = "modify"
  /\ IF alias_changed(cur.changes)
       THEN /\ spc' = "ins_wlock"
            /\ UNCHANGED <<cur, applied>>
       ELSE /\ spc' = "recv"
            /\ applied' = Append(applied, cur)
            /\ cur' = NoEvent
  /\ UNCHANGED <<tvars, chan, vms, panic, cache, lvars, wvars, cpc, rd>>

\* variant of SyncDelete: the deleted zone is removed from the cache
SyncDelete_Removes ==
  /\ spc = "delete"
  /\ spc' = "recv"
  /\ cache' = [k \in DOMAIN cache \ {cur.vm.zonedid} |-> cache[k]]
  /\ applied' = Append(applied, cur)
  /\ cur' = NoEvent
  /\ UNCHANGED <<tvars, chan, vms, panic, lvars, wvars, cpc, rd>>

\* Delete arm: ()
SyncDelete ==
  /\ spc = "delete"
  /\ spc' = "recv"
  /\ applied' = Append(applied, cur)
  /\ cur' = NoEvent
  /\ UNCHANGED <<tvars, chan, vms, panic, cache, lvars, wvars, cpc, rd>>

\* variant of InsertLock: the write guard is taken beside read guards
InsertLock_NoWait ==
  /\ spc = "ins_wlock"
  /\ wlock' = TRUE
  /\ spc' = "ins_write"
  /\ UNCHANGED <<tvars, chan, cur, vms, panic, cache, readers, wvars, cpc,
                 applied, rd>>

\* insert_vmobj: vmobjs.write().unwrap()
InsertLock ==
  /\ spc = "ins_wlock"
  /\ readers = 0
  /\ wlock' = TRUE
  /\ spc' = "ins_write"
  /\ UNCHANGED <<tvars, chan, cur, vms, panic, cache, readers, wvars, cpc,
                 applied, rd>>

\* variant of insert_vmobj: the record is not stored
insert_vmobj_Lost ==
  /\ spc = "ins_write"
  /\ cache' = cache
  /\ wlock' = FALSE
  /\ applied' = Append(applied, cur)
  /\ cur' = NoEvent
  /\ spc' = "recv"
  /\ UNCHANGED <<tvars, chan, vms, panic, readers, wvars, cpc, rd>>

\* insert_vmobj: w.insert(zone.zonedid, zone), then w is dropped
insert_vmobj ==
  /\ spc = "ins_write"
  /\ cache' = MapInsert(cache, cur.vm)
  /\ wlock' = FALSE
  /\ applied' = Append(applied, cur)
  /\ cur' = NoEvent
  /\ spc' = "recv"
  /\ UNCHANGED <<tvars, chan, vms, panic, readers, wvars, cpc, rd>>

(***************************************************************************)
(* Caller: the tail of start_vminfod.                                      *)
(***************************************************************************)
\* lock.lock().unwrap(): Err, and so a panic, when the mutex is poisoned
CallerLock ==
  /\ cpc = "lock"
  /\ mtx = "free"
  /\ IF poisoned
       THEN cpc' = "panicked" /\ mtx' = mtx
       ELSE cpc' = "check" /\ mtx' = "caller"
  /\ UNCHANGED <<tvars, chan, svars, cache, lvars, poisoned, ready, signals,
                 applied, rd>>

\* variant of CallerCheck: the flag is not consulted before returning
CallerCheck_NoWait ==
  /\ cpc = "check"
  /\ mtx' = "free"
  /\ cpc' = "returned"
  /\ UNCHANGED <<tvars, chan, svars, cache, lvars, poisoned, ready, signals,
                 applied, rd>>

\* while !*ready { cvar.wait(ready) }: wait releases the mutex and blocks in
\* one step; when ready the loop ends and the guard is dropped on return
CallerCheck ==
  /\ cpc = "check"
  /\ mtx' = "free"
  /\ cpc' = IF ready THEN "returned" ELSE "waiting"
  /\ UNCHANGED <<tvars, chan, svars, cache, lvars, poisoned, ready, signals,
                 applied, rd>>

\* Condvar::wait may wake without a notification
CallerSpurious ==
  /\ cpc = "waiting"
  /\ cpc' = "woken"
  /\ UNCHANGED <<tvars, chan, svars, cache, lvars, wvars, applied, rd>>

\* cvar.wait(ready).unwrap() takes the mutex again before it returns
CallerWake ==
  /\ cpc = "woken"
  /\ mtx = "free"
  /\ IF poisoned
       THEN cpc' = "panicked" /\ mtx' = mtx
       ELSE cpc' = "check" /\ mtx' = "caller"
  /\ UNCHANGED <<tvars, chan, svars, cache, lvars, poisoned, ready, signals,
                 applied, rd>>

(***************************************************************************)
(* Reader: a lookup in Vmobjs under vmobjs.read().                         *)
(***************************************************************************)
ReaderGet(id) ==
  /\ rd.pc = "idle"
  /\ ~wlock
  /\ readers' = readers + 1
  /\ rd' = [pc |-> "reading", id |-> id, val |-> MapGet(cache, id)]
  /\ UNCHANGED <<tvars, chan, svars, cache, wlock, wvars, cpc, applied>>

ReaderDrop ==
  /\ rd.pc = "reading"
  /\ readers' = readers - 1
  /\ rd' = Idle
  /\ UNCHANGED <<tvars, chan, svars, cache, wlock, wvars, cpc, applied>>

(***************************************************************************)
(* Specifications.                                                         *)
(***************************************************************************)
Transport == TConnectFail \/ TConnect \/ TEnd \/ (\E line \in Lines : TLine(line))

Synchronizer ==
  \/ SyncRecv \/ SyncClosed
  \/ SyncReadyLock \/ SyncReadyCheck \/ SyncReadyWrite \/ SyncReadyInsert
  \/ SyncReadySet \/ SyncReadyNotify \/ SyncReadyDrop
  \/ SyncModify \/ SyncDelete \/ InsertLock \/ insert_vmobj

Caller == CallerLock \/ CallerCheck \/ CallerSpurious \/ CallerWake

Reader == ReaderDrop \/ (\E id \in Zonedid : ReaderGet(id))

Next == Transport \/ Synchronizer \/ Caller

Spec == Init /\ [][Next]_vars

\* both threads are scheduled: a step of the synchronizer, or of the caller
\* other than a spurious wakeup, that stays possible is taken, and the
\* synchronizer is not kept off the waiter mutex for ever by a caller that
\* takes it again and again; the transport depends on the network and gets
\* no such guarantee
CallerRuns == CallerLock \/ CallerCheck \/ CallerWake

NextFair == Next /\ Len(wire') <= MaxLinesFair

FairSpec ==
  /\ Init /\ [][NextFair]_vars
  /\ WF_vars(Synchronizer) /\ SF_vars(SyncReadyLock) /\ WF_vars(CallerRuns)

\* the pipeline with a thread that reads Vmobjs
NextRW == (Next /\ Len(wire') <= MaxLinesRW) \/ Reader

SpecRW == Init /\ [][NextRW]_vars

\* alias_changed on every changes payload within the bounds: the synchronizer
\* holds a Modify event, the only line of a stream that has ended
InitAlias ==
  /\ \E ch \in ChangesLists :
       /\ cur = ModifyEvent(Z(1, "b"), ch)
       /\ wire = <<cur>>
  /\ tpc = "done"
  /\ chan = <<>>
  /\ spc = "modify"
  /\ vms = <<>>
  /\ panic = ""
  /\ cache = <<>>
  /\ wlock = FALSE
  /\ readers = 0
  /\ mtx = "free"
  /\ poisoned = FALSE
  /\ ready = FALSE
  /\ signals = 0
  /\ cpc = "lock"
  /\ applied = <<>>
  /\ rd = Idle

NextAlias == SyncModify \/ InsertLock \/ insert_vmobj

SpecAlias == InitAlias /\ [][NextAlias]_vars

(***************************************************************************)
(* Vocabulary of the properties.                                           *)
(***************************************************************************)
Max(S) == CHOOSE x \in S : \A y \in S : y <= x

\* some change path has a present first segment equal to "alias"
HasAliasFirst(changes) ==
  \E i \in 1..Len(changes) :
    /\ Len(changes[i].path) >= 1
    /\ changes[i].path[1] = Some("alias")

\* positions of the zones of a Ready payload that carry id
SnapPos(e, id) == {k \in 1..Len(e.vms.zones) : e.vms.zones[k].zonedid = id}
SnapIds(e) == {e.vms.zones[k].zonedid : k \in 1..Len(e.vms.zones)}
\* the record a Ready payload carries for id: its last entry for that id
SnapRecord(e, id) == e.vms.zones[Max(SnapPos(e, id))]

\* event e carries a record that is to be stored under id
Writes(e, id) ==
  CASE e.type = "Ready" -> e.vms.ok /\ SnapPos(e, id) # {}
    [] e.type = "Create" -> e.vm.zonedid = id
    [] e.type = "Modify" -> e.vm.zonedid = id /\ HasAliasFirst(e.changes)
    [] OTHER -> FALSE
Written(e, id) == IF e.type = "Ready" THEN SnapRecord(e, id) ELSE e.vm

\* the record of the most recent event of hist that writes id, if any
Writers(hist, id) == {i \in 1..Len(hist) : Writes(hist[i], id)}
Expected(hist, id) ==
  IF Writers(hist, id) = {} THEN NoZone
  ELSE Written(hist[Max(Writers(hist, id))], id)

Readies(hist) == {i \in 1..Len(hist) : hist[i].type = "Ready"}
FirstReady == applied[CHOOSE i \in Readies(applied) : \A j \in Readies(applied) : i <= j]

\* the synchronizer holds the write guard of the Ready arm
InBulkLoad == spc \in {"ready_insert", "ready_notify", "ready_drop"}
\* the first Ready has just been applied: every record is in, the flag not
\* yet set
JustLoaded == spc = "ready_insert" /\ vms = <<>>

Returns == cpc # "returned" /\ cpc' = "returned"

(***************************************************************************)
(* Properties.                                                             *)
(***************************************************************************)
\* C1: start_vminfod has returned only if a Ready event was applied in full:
\* its arm has completed, every id of its snapshot is in the cache and the
\* ready flag is set.
C1_ReturnAfterReady ==
  cpc = "returned" =>
    /\ ready
    /\ Readies(applied) # {}
    /\ SnapIds(FirstReady) \subseteq DOMAIN cache
    /\ ~InBulkLoad

C1_Witness ==
  /\ cpc = "returned"
  /\ Readies(applied) # {}
  /\ Cardinality(SnapIds(FirstReady)) = 2

\* C2 as stated: at the step in which start_vminfod returns, the cache holds
\* for every id of the snapshot the snapshot's own record.
C2_Original ==
  [][Returns =>
       \A id \in SnapIds(FirstReady)' :
         MapGet(cache', id) = SnapRecord(FirstReady', id)]_vars

\* C2 amended: at the step in which start_vminfod returns, every id of the
\* snapshot is present in the cache, with the record of the most recent
\* applied event that writes that id (the snapshot's unless a later Create or
\* alias Modify for the id was applied before the return).
C2_ReturnSeesSnapshotIds ==
  [][Returns =>
       \A id \in SnapIds(FirstReady)' :
         /\ id \in DOMAIN cache'
         /\ cache'[id] = Expected(applied', id)]_vars

C2_Witness ==
  /\ cpc = "returned"
  /\ Readies(applied) # {}
  /\ Cardinality(SnapIds(FirstReady)) = 2
  /\ \A id \in SnapIds(FirstReady) : cache[id] = SnapRecord(FirstReady, id)

\* a wire of exactly one Ready, first, followed by Create/Modify/Delete lines
OneReadyThenEvents ==
  /\ Len(wire) >= 1
  /\ \A i \in 1..Len(wire) : Decodes(wire[i])
  /\ Readies(wire) = {1}

\* C3: when the wire is one Ready followed by Create/Modify/Delete events and
\* all of them have been applied, the cache holds for every id the record of
\* the most recent Ready entry, Create or alias Modify for that id, and holds
\* nothing for an id that none of them wrote; a Delete removes nothing.
C3_FinalCache ==
  (OneReadyThenEvents /\ applied = wire) =>
    \A id \in Zonedid :
      /\ MapGet(cache, id) = Expected(wire, id)
      /\ id \in DOMAIN cache <=> Writers(wire, id) # {}

C3_Witness ==
  /\ OneReadyThenEvents
  /\ applied = wire
  /\ Len(wire) = 3
  /\ wire[2].type \in {"Create", "Modify"}
  /\ wire[3].type = "Delete"
  /\ Writers(wire, wire[3].vm.zonedid) # {}

\* C4 as stated: the cache is empty until the first Ready is being applied,
\* and right after its last insert it holds exactly the snapshot's records.
C4_Original ==
  /\ (Readies(applied) = {} /\ ~InBulkLoad) => cache = <<>>
  /\ (JustLoaded /\ Readies(applied) = {}) =>
       /\ DOMAIN cache = SnapIds(cur)
       /\ \A id \in SnapIds(cur) : cache[id] = SnapRecord(cur, id)

\* C4 amended: until the first Ready is being applied the cache holds exactly
\* the records upserted by the Create and alias Modify events applied so far
\* (it is empty when there were none), and right after the last insert of the
\* first Ready it holds the snapshot's record for every id of the snapshot
\* and, for every other id, what it held before.
C4_BaselineOverPreReady ==
  /\ (Readies(applied) = {} /\ ~InBulkLoad) =>
       /\ DOMAIN cache = {id \in Zonedid : Writers(applied, id) # {}}
       /\ \A id \in DOMAIN cache : cache[id] = Expected(applied, id)
  /\ (JustLoaded /\ Readies(applied) = {}) =>
       /\ DOMAIN cache =
            SnapIds(cur) \cup {id \in Zonedid : Writers(applied, id) # {}}
       /\ \A id \in SnapIds(cur) : cache[id] = SnapRecord(cur, id)
       /\ \A id \in DOMAIN cache \ SnapIds(cur) :
            cache[id] = Expected(applied, id)

C4_Witness ==
  /\ JustLoaded
  /\ Readies(applied) = {}
  /\ SnapIds(cur) # {}
  /\ DOMAIN cache \ SnapIds(cur) # {}
  /\ \E id \in SnapIds(cur) : Writers(applied, id) # {}

\* the synchronizer holds a Ready event after an earlier one was applied
SecondReadyInHand == cur.type = "Ready" /\ Readies(applied) # {}

\* C5: a second Ready is fatal: from the moment the synchronizer holds it, the
\* cache and the list of applied events never change again, and the only way
\* out of the Ready arm is the panic of the assertion.
C5_SecondReadyFatal ==
  [][SecondReadyInHand =>
       /\ cache' = cache
       /\ applied' = applied
       /\ spc' # spc =>
            IF spc = "ready_lock" THEN spc' = "ready_check"
            ELSE spc = "ready_check" /\ spc' = "panicked" /\ panic' = AssertFailed]_vars

C5_Witness ==
  /\ SecondReadyInHand
  /\ panic = AssertFailed
  /\ cur.vms.ok /\ SnapIds(cur) # {}
  /\ chan # <<>>

\* C6: no step of the Delete arm, receiving the event included, changes the
\* cache, before and after the first Ready.
C6_DeleteKeepsCache ==
  [][(cur.type = "Delete" \/ cur'.type = "Delete") => cache' = cache]_vars

C6_Witness ==
  \E i \in 1..Len(applied) :
    /\ applied[i].type = "Delete"
    /\ Readies(SubSeq(applied, 1, i - 1)) # {}
    /\ Writers(SubSeq(applied, 1, i - 1), applied[i].vm.zonedid) # {}
    /\ applied[i].vm.zonedid \in DOMAIN cache

NoAliasModify(e) == e.type = "Modify" /\ ~HasAliasFirst(e.changes)
AliasModify(e) == e.type = "Modify" /\ HasAliasFirst(e.changes)

\* C7: no step of the arm of a Modify whose changes have no path starting
\* with "alias", receiving the event included, changes the cache.
C7_OtherModifyKeepsCache ==
  [][(NoAliasModify(cur) \/ NoAliasModify(cur')) => cache' = cache]_vars

C7_Witness ==
  \E i \in 1..Len(applied) :
    /\ NoAliasModify(applied[i])
    /\ applied[i].changes # <<>>
    /\ Writers(SubSeq(applied, 1, i - 1), applied[i].vm.zonedid) # {}
    /\ cache[applied[i].vm.zonedid] # applied[i].vm

\* C8: the arm of a Modify whose changes have a path starting with "alias"
\* ends with the cache holding the event's record under the record's id,
\* whether or not the id was cached, and every other entry as it was; no
\* earlier step of the arm changes the cache.
C8_AliasModifyReplaces ==
  [][AliasModify(cur) =>
       IF applied' # applied
         THEN /\ applied' = Append(applied, cur)
              /\ DOMAIN cache' = DOMAIN cache \cup {cur.vm.zonedid}
              /\ cache'[cur.vm.zonedid] = cur.vm
              /\ \A k \in DOMAIN cache \ {cur.vm.zonedid} : cache'[k] = cache[k]
         ELSE cache' = cache]_vars

C8_Witness ==
  \E i \in 1..Len(applied) :
    /\ AliasModify(applied[i])
    /\ Expected(SubSeq(applied, 1, i - 1), applied[i].vm.zonedid)
         \notin {NoZone, applied[i].vm}
    /\ DOMAIN cache = Zonedid
    /\ cache[applied[i].vm.zonedid] = applied[i].vm

\* C9: the Modify arm stores the record, that is alias_changed returned true,
\* exactly when some change path has a present first segment equal to
\* "alias"; in particular not for an empty changes list, an empty path, an
\* absent first segment, or "alias" at a later segment only.
C9_AliasChanged ==
  [][(spc = "modify" /\ spc' # spc) =>
       /\ spc' = "ins_wlock" <=> HasAliasFirst(cur.changes)
       /\ spc' = "recv" <=> ~HasAliasFirst(cur.changes)
       /\ (\A i \in 1..Len(cur.changes) :
             \/ cur.changes[i].path = <<>>
             \/ cur.changes[i].path[1] = None
             \/ cur.changes[i].path[1] = Some("nics")) => spc' = "recv"]_vars

C9_Witness ==
  /\ spc = "recv"
  /\ Len(applied) = 1
  /\ applied[1].changes =
       << [path |-> <<>>], [path |-> <<None, Some("alias")>>] >>
  /\ cache = <<>>

PrefixOf(a, b) == Len(a) <= Len(b) /\ SubSeq(b, 1, Len(a)) = a
\* the events the transport decoded, in wire order
Decoded(w) == SelectSeq(w, Decodes)
InHand == IF cur = NoEvent THEN <<>> ELSE <<cur>>

\* C10: the events applied, the event in hand and the events in the channel
\* are, in this order, the events decoded from the wire in wire order; once
\* the synchronizer has panicked the applied events are a prefix of them.
C10_WireOrder ==
  IF panic = ""
    THEN applied \o InHand \o chan = Decoded(wire)
    ELSE PrefixOf(applied, Decoded(wire))

C10_Witness ==
  /\ Len(applied) >= 2
  /\ applied[1].type \in {"Ready", "Create"}
  /\ AliasModify(applied[2])
  /\ Writes(applied[1], applied[2].vm.zonedid)
  /\ applied[2].vm # Written(applied[1], applied[2].vm.zonedid)
  /\ chan # <<>>

\* C11: the ready flag is false until the first Ready is being applied, is
\* set by the synchronizer while it holds the first Ready, is never reset,
\* and notify_one is called at most once, exactly once when a Ready has been
\* applied.
C11_ReadyOnce ==
  [][/\ (Readies(applied) = {} /\ ~InBulkLoad) => (~ready /\ signals = 0)
     /\ ready => ready'
     /\ (~ready /\ ready') => (cur.type = "Ready" /\ Readies(applied) = {})
     /\ signals' \in {signals, signals + 1}
     /\ signals' <= 1
     /\ signals' = 1 => ready'
     /\ Readies(applied') # {} => signals' = 1]_vars

C11_Witness ==
  /\ signals = 1
  /\ ready
  /\ Len(applied) = 2
  /\ applied[1].type = "Create"
  /\ applied[2].type = "Ready"
  /\ cur.type = "Ready"
  /\ spc = "panicked"

\* C12 as stated: once a Ready has been applied, start_vminfod eventually
\* returns.
C12_Original == (Readies(applied) # {}) ~> (cpc = "returned")

\* C12, what the code does guarantee: once a Ready has been applied, the
\* caller eventually leaves the wait loop (no wakeup is lost): it returns, or
\* it panics on the mutex that a second Ready poisoned before the caller held
\* the mutex again.
C12_CallerLeavesWait ==
  (Readies(applied) # {}) ~>
    (cpc = "returned" \/ (cpc = "panicked" /\ panic = AssertFailed))

C12_Witness ==
  /\ Readies(applied) # {}
  /\ cpc = "panicked"
  /\ panic = AssertFailed
  /\ ready

\* the channel is disconnected and empty and the synchronizer is at r.iter()
Drained == spc = "recv" /\ chan = <<>> /\ ChanClosed

\* C13: with the channel disconnected and empty the only step of the
\* synchronizer is the panic "vminfod event stream closed", which it takes;
\* after it nothing is applied, the cache is not written, and the transport
\* is not started again.
C13_StreamCloseFatal ==
  /\ [][/\ Drained =>
             /\ tpc' = tpc /\ wire' = wire /\ chan' = chan
             /\ cache' = cache /\ applied' = applied
             /\ spc' # spc => (spc' = "panicked" /\ panic' = StreamClosed)
        /\ panic = StreamClosed =>
             /\ spc' = "panicked" /\ panic' = panic
             /\ tpc' = tpc /\ wire' = wire /\ chan' = chan
             /\ cache' = cache /\ applied' = applied]_vars
  /\ Drained ~> (panic = StreamClosed)

C13_Witness ==
  /\ panic = StreamClosed
  /\ Len(wire) < MaxLinesFair
  /\ applied = wire
  /\ Len(applied) >= 1
  /\ ~ready

Malformeds == {i \in 1..Len(wire) : ~Decodes(wire[i])}

\* C14: a line that does not decode is the last line the transport reads: the
\* transport is over, and the events applied, in hand and in the channel are
\* exactly the lines before it, in order.
C14_MalformedAborts ==
  \A k \in Malformeds :
    /\ k = Len(wire)
    /\ tpc = "done"
    /\ applied \o InHand \o chan = SubSeq(wire, 1, k - 1)

C14_Witness ==
  /\ Len(wire) = 2
  /\ Malformeds = {2}
  /\ chan = <<wire[1]>>
  /\ spc = "recv"

\* C15: a reader and the writer are never inside Vmobjs together, and what a
\* get returns is a whole record of a completed write: the record of the most
\* recent applied event that writes the id, or nothing when there is none.
C15_GetSeesWholeRecord ==
  /\ ~(wlock /\ readers > 0)
  /\ readers = IF rd.pc = "reading" THEN 1 ELSE 0
  /\ rd.pc = "reading" =>
       /\ rd.val = MapGet(cache, rd.id)
       /\ rd.val = Expected(applied, rd.id)
       /\ rd.val = NoZone \/ (rd.val \in Zone /\ rd.val.zonedid = rd.id)

C15_Witness ==
  /\ rd.pc = "reading"
  /\ spc = "ins_wlock"
  /\ cur.vm.zonedid = rd.id
  /\ rd.val \notin {NoZone, cur.vm}

\* C19: the write guard is held from the first insert of a snapshot to the
\* end of the Ready arm and no read guard exists meanwhile; whenever a reader
\* is inside Vmobjs, the cache holds for every id the record of the most
\* recent applied event, so of a snapshot either nothing or everything.
C19_SnapshotAtomic ==
  /\ InBulkLoad => (wlock /\ readers = 0 /\ rd = Idle)
  /\ rd.pc = "reading" =>
       \A id \in Zonedid : MapGet(cache, id) = Expected(applied, id)

C19_Witness ==
  /\ spc = "ready_insert"
  /\ Len(cur.vms.zones) = 2
  /\ Len(vms) = 1
  /\ DOMAIN cache = {1}
  /\ rd = Idle

\* the cache after an upsert of z
Upserted(m, z) ==
  [k \in DOMAIN m \cup {z.zonedid} |-> IF k = z.zonedid THEN z ELSE m[k]]

\* C16: before the first Ready no step of a Create, Modify or Delete arm is a
\* panic; when the arm ends the cache is the upsert of the event's record for
\* a Create or an alias Modify and is unchanged for any other Modify and for
\* a Delete; and when the first Ready has been loaded every id of its
\* snapshot holds the snapshot's record.
C16_PreReadyEvents ==
  [][/\ (Readies(applied) = {} /\ cur.type \in {"Create", "Modify", "Delete"}) =>
          /\ spc' # "panicked" /\ panic' = ""
          /\ IF applied' # applied
               THEN /\ applied' = Append(applied, cur)
                    /\ cache' = IF Writes(cur, cur.vm.zonedid)
                                  THEN Upserted(cache, cur.vm) ELSE cache
               ELSE cache' = cache
     /\ (JustLoaded /\ Readies(applied) = {}) =>
          \A id \in SnapIds(cur) :
            id \in DOMAIN cache /\ cache[id] = SnapRecord(cur, id)]_vars

C16_Witness ==
  /\ Len(applied) = 3
  /\ AliasModify(applied[1])
  /\ applied[2].type = "Delete"
  /\ applied[3].type = "Ready"
  /\ Writes(applied[3], applied[1].vm.zonedid)
  /\ cache[applied[1].vm.zonedid] # applied[1].vm
  /\ panic = ""

\* C17 as stated: once the transport has terminated the synchronizer receives
\* every event that was sent and then finds the stream closed.
C17_Original ==
  (tpc = "done") ~> (panic = StreamClosed /\ applied = Decoded(wire))

\* C17 amended: once the transport has terminated it reads and sends nothing
\* more; the synchronizer finds the stream closed only with every event sent
\* applied; and it does find it closed unless it panics first on a second
\* Ready or on a vms payload that does not parse.
C17_TerminationObserved ==
  /\ [][tpc = "done" =>
          /\ tpc' = "done" /\ wire' = wire
          /\ chan' = chan \/ (chan # <<>> /\ chan' = Tail(chan))]_vars
  /\ [](panic = StreamClosed =>
          (ChanClosed /\ chan = <<>> /\ applied = Decoded(wire)))
  /\ (tpc = "done") ~> (panic \in {StreamClosed, AssertFailed, ParseFailed})

C17_Witness ==
  /\ panic = StreamClosed
  /\ tpc = "done"
  /\ Malformeds = {}
  /\ Len(applied) = 2
  /\ Readies(applied) = {1}

\* C18: when the synchronizer finds the stream closed before any Ready was
\* applied, the flag is false, no notification was made, the mutex is not
\* poisoned, and the caller is, and stays, inside the wait loop.
C18_NoReadyNoReturn ==
  [][(panic = StreamClosed /\ Readies(applied) = {}) =>
       /\ ~ready /\ signals = 0 /\ ~poisoned
       /\ cpc \in {"lock", "check", "waiting", "woken"}
       /\ cpc' \in {"lock", "check", "waiting", "woken"}
       /\ ~ready' /\ panic' = panic /\ applied' = applied]_vars

C18_Witness ==
  /\ panic = StreamClosed
  /\ Readies(applied) = {}
  /\ Len(applied) >= 1
  /\ cpc = "waiting"

\* the synchronizer holds a first Ready whose vms payload does not parse
BadReadyInHand == cur.type = "Ready" /\ ~ParsesVms(cur.vms) /\ ~ready

\* C20: a first Ready whose vms payload does not parse never changes the
\* cache or the flag; the only way out of its arm is the panic of the parse,
\* taken with the waiter mutex held, which is left poisoned; the caller has
\* not returned then and never returns.
C20_BadVmsFatal ==
  [][/\ BadReadyInHand =>
          /\ cache' = cache /\ applied' = applied /\ ~ready' /\ signals' = 0
          /\ cur' = cur
          /\ cpc # "returned" /\ cpc' # "returned"
          /\ spc' # spc =>
               IF spc = "ready_lock" THEN spc' = "ready_check"
               ELSE /\ spc = "ready_check" /\ mtx = "sync"
                    /\ spc' = "panicked" /\ panic' = ParseFailed
                    /\ mtx' = "free" /\ poisoned'
     /\ panic = ParseFailed => (BadReadyInHand /\ poisoned /\ spc' = "panicked")]_vars

C20_Witness ==
  /\ panic = ParseFailed
  /\ cpc = "panicked"
  /\ cache # <<>>
  /\ chan # <<>>

====
